---- MODULE Spec2Model ----
(***************************************************************************)
(* A model of mepoo (src/lib.rs): a typed memory pool whose slots are      *)
(* recycled through an intrusive free list.                                *)
(*                                                                         *)
(* Memory is a map from addresses to entries.  A block is BLOCK_SIZE       *)
(* consecutive addresses starting at a base address chosen by the global   *)
(* allocator among the regions that are currently unmapped.  Dropping a    *)
(* pool unmaps its blocks, so a later block (of any pool) can be placed at *)
(* the same addresses.  Option<NonNull<_>> is a nullable pointer: address  *)
(* 0 is None.                                                              *)
(***************************************************************************)
EXTENDS Integers, Sequences, FiniteSets, TLC

\* ---- bounds of the model ------------------------------------------------
\* Entries per block (Pool::BLOCK_SIZE is 1024 in the source; scaled down).
BLOCK_SIZE == 2
\* Number of block-sized regions the global allocator can hand out.
NumFrames == 2
\* Number of pool-typed variables the caller owns.
NumVars == 2
\* Number of calls of PoolId::gen explored.
MaxGen == 3
\* Length of the call sequences explored.
MaxCalls == 5
\* Values stored in the pool (T).
Values == {1, 2}

\* ---- program constants --------------------------------------------------
\* AtomicUsize::new(1)
COUNTER_INIT == 1
\* PoolId::ZERO
ZERO == 0
\* Option<NonNull<_>>::None, the null address
NULL == 0
\* NonNull::dangling(): the alignment as an address, never mapped
DANGLING_ADDR == 1

PoolVars == 1..NumVars
Frames == 1..NumFrames
FrameBase(f) == f * BLOCK_SIZE
Bases == {FrameBase(f) : f \in Frames}
Addr == 1..(FrameBase(NumFrames) + BLOCK_SIZE - 1)

VARIABLES COUNTER, pools, mem, issued, call, hist, genlog, ncalls
vars == <<COUNTER, pools, mem, issued, call, hist, genlog, ncalls>>

\* ---- Entry<T> -------------------------------------------------------------
Vacant(link) == [tag |-> "Vacant", link |-> link, value |-> 0]
Occupied(value) == [tag |-> "Occupied", link |-> NULL, value |-> value]
\* An address that belongs to no live block.
Unmapped == [tag |-> "Unmapped", link |-> NULL, value |-> 0]
\* The outcome of a read that faults.
Fault == [tag |-> "Fault", link |-> NULL, value |-> 0]

AllEntries ==
  {Vacant(l) : l \in {NULL} \cup Addr} \cup {Occupied(v) : v \in Values}

\* Reading through a raw pointer: the entry stored there, or, when the
\* address is not mapped (undefined behaviour), a fault or any entry.
Deref(m, a) ==
  IF a \in Addr /\ m[a].tag # "Unmapped" THEN {m[a]}
  ELSE {Fault} \cup AllEntries

\* Writing through a raw pointer; a write to an unmapped address lands in
\* memory that no pool owns.
Store(m, a, e) ==
  IF a \in Addr /\ m[a].tag # "Unmapped" THEN [m EXCEPT ![a] = e] ELSE m

\* ---- PoolId ---------------------------------------------------------------
\* COUNTER.fetch_add(1): returns the old value.  The counter is a usize and
\* wraps at 2^64, which MaxGen calls never reach.
gen_noinc(counter) == [id |-> counter, counter |-> counter]
gen(counter) == [id |-> counter, counter |-> counter + 1]

\* ---- Ptr<T>, Ref<T> -------------------------------------------------------
Ptr(a, id) == [ptr |-> a, pool_id |-> id]
DANGLING == Ptr(DANGLING_ADDR, ZERO)

\* impl PartialEq for Ptr
PtrEq_ptronly(a, b) == a.ptr = b.ptr
PtrEq(a, b) == a.ptr = b.ptr /\ a.pool_id = b.pool_id

\* impl Ord / PartialOrd for Ptr
PtrCmp(a, b) ==
  IF a.ptr < b.ptr THEN "Less" ELSE IF a.ptr = b.ptr THEN "Equal" ELSE "Greater"

\* impl Hash for Ptr: only the address is fed to the hasher
PtrHash(a) == a.ptr

\* impl From<Ref> for Ptr
PtrFromRef_nopool(r) == Ptr(r.entry, ZERO)
PtrFromRef(r) == Ptr(r.entry, r.pool_id)

\* Results of calls: kind is "panic", "fault", "None", "Some", "true",
\* "false", "Ptr" or "ok"; val is the value seen, out the pointer returned
\* (for Some: the entry the reference points into).
Result(kind, val, out) == [kind |-> kind, val |-> val, out |-> out]
Panic == Result("panic", 0, DANGLING)

\* Ptr::as_ref, on the entry e read at self.ptr
as_ref_vacant(self, e) ==
  IF e.tag = "Fault" THEN Result("fault", 0, DANGLING)
  ELSE IF e.tag = "Vacant"
       THEN Result("Some", e.value,
                   PtrFromRef([value |-> e.value, entry |-> self.ptr,
                               pool_id |-> self.pool_id]))
       ELSE Result("None", 0, DANGLING)
as_ref(self, e) ==
  IF e.tag = "Fault" THEN Result("fault", 0, DANGLING)
  ELSE IF e.tag = "Occupied"
       THEN Result("Some", e.value,
                   PtrFromRef([value |-> e.value, entry |-> self.ptr,
                               pool_id |-> self.pool_id]))
       ELSE Result("None", 0, DANGLING)

\* Ptr::as_mut, on the entry e read at self.ptr; out.ptr is the place the
\* returned &mut T points into
as_mut_copy(self, e) ==
  IF e.tag = "Fault" THEN Result("fault", 0, DANGLING)
  ELSE IF e.tag = "Occupied"
       THEN Result("Some", e.value, Ptr(NULL, self.pool_id))
       ELSE Result("None", 0, DANGLING)
as_mut(self, e) ==
  IF e.tag = "Fault" THEN Result("fault", 0, DANGLING)
  ELSE IF e.tag = "Occupied"
       THEN Result("Some", e.value, Ptr(self.ptr, self.pool_id))
       ELSE Result("None", 0, DANGLING)

\* ---- Pool<T> --------------------------------------------------------------
NoPool == [live |-> FALSE, blocks |-> <<>>, vacant |-> NULL, id |-> ZERO]

\* Pool::new, given the id PoolId::gen returned
new(id) == [live |-> TRUE, blocks |-> <<>>, vacant |-> NULL, id |-> id]

\* Pool::new_block: the loop pushes Vacant(vacant) and then points vacant at
\* the entry just pushed; block[i + 1] lives at address base + i.
RECURSIVE new_block_loop(_, _, _, _)
new_block_loop(base, i, block, vacant) ==
  IF i = BLOCK_SIZE THEN [vacant |-> vacant, block |-> block]
  ELSE new_block_loop(base, i + 1, Append(block, Vacant(vacant)), base + i)

new_block_unlinked(base) ==
  [vacant |-> base + BLOCK_SIZE - 1,
   block |-> [i \in 1..BLOCK_SIZE |-> Vacant(NULL)]]
new_block_forward(base) ==
  [vacant |-> base,
   block |-> [i \in 1..BLOCK_SIZE |->
                Vacant(IF i = BLOCK_SIZE THEN NULL ELSE base + i)]]
new_block_first(base) ==
  [vacant |-> base, block |-> new_block_loop(base, 0, <<>>, NULL).block]
new_block(base) == new_block_loop(base, 0, <<>>, NULL)

\* Placing a boxed block in memory at its base address.
MapBlock_moving(m, base, block) ==
  [a \in Addr |->
     IF a >= base /\ a < base + BLOCK_SIZE
     THEN block[a - base + 1] ELSE Unmapped]
MapBlock(m, base, block) ==
  [a \in Addr |->
     IF a >= base /\ a < base + BLOCK_SIZE THEN block[a - base + 1] ELSE m[a]]

\* Pool::alloc, lines 135-142: take the head of the free list, or push a new
\* block (placed at base) when the list is empty.
alloc_grow_replace(self, m, base) ==
  IF self.vacant # NULL
  THEN [self |-> self, mem |-> m, vacant |-> self.vacant]
  ELSE LET nb == new_block(base)
       IN [self |-> [self EXCEPT !.blocks = <<base>>,
                                 !.vacant = nb.vacant],
           mem |-> MapBlock(m, base, nb.block),
           vacant |-> nb.vacant]
alloc_grow(self, m, base) ==
  IF self.vacant # NULL
  THEN [self |-> self, mem |-> m, vacant |-> self.vacant]
  ELSE LET nb == new_block(base)
       IN [self |-> [self EXCEPT !.blocks = Append(@, base),
                                 !.vacant = nb.vacant],
           mem |-> MapBlock(m, base, nb.block),
           vacant |-> nb.vacant]

\* Pool::alloc, lines 143-153, on the entry e read at the head g.vacant.
alloc_pop_keephead(g, value, e) ==
  IF e.tag = "Vacant"
  THEN [res |-> Result("Ptr", value, Ptr(g.vacant, g.self.id)),
        self |-> g.self,
        mem |-> Store(g.mem, g.vacant, Occupied(value))]
  ELSE [res |-> IF e.tag = "Fault" THEN Result("fault", 0, DANGLING) ELSE Panic,
        self |-> g.self, mem |-> g.mem]
alloc_pop_newhead(g, value, e) ==
  IF e.tag = "Vacant"
  THEN [res |-> Result("Ptr", value, Ptr(e.link, g.self.id)),
        self |-> [g.self EXCEPT !.vacant = e.link],
        mem |-> Store(g.mem, g.vacant, Occupied(value))]
  ELSE [res |-> IF e.tag = "Fault" THEN Result("fault", 0, DANGLING) ELSE Panic,
        self |-> g.self, mem |-> g.mem]
alloc_pop(g, value, e) ==
  IF e.tag = "Vacant"
  THEN [res |-> Result("Ptr", value, Ptr(g.vacant, g.self.id)),
        self |-> [g.self EXCEPT !.vacant = e.link],
        mem |-> Store(g.mem, g.vacant, Occupied(value))]
  ELSE [res |-> IF e.tag = "Fault" THEN Result("fault", 0, DANGLING) ELSE Panic,
        self |-> g.self, mem |-> g.mem]

\* Pool::alloc
alloc(self, m, value, base, e) == alloc_pop(alloc_grow(self, m, base), value, e)

\* Pool::free, on the entry e read at h.ptr
free_noassert(self, m, h, e) ==
  IF e.tag = "Fault"
  THEN [res |-> Result("fault", 0, h), self |-> self, mem |-> m]
  ELSE IF e.tag = "Vacant"
  THEN [res |-> Result("false", 0, h), self |-> self, mem |-> m]
  ELSE [res |-> Result("true", 0, h),
        self |-> [self EXCEPT !.vacant = h.ptr],
        mem |-> Store(m, h.ptr, Vacant(self.vacant))]
free_nohead(self, m, h, e) ==
  IF h.pool_id # self.id
  THEN [res |-> Panic, self |-> self, mem |-> m]
  ELSE IF e.tag = "Fault"
  THEN [res |-> Result("fault", 0, h), self |-> self, mem |-> m]
  ELSE IF e.tag = "Vacant"
  THEN [res |-> Result("false", 0, h), self |-> self, mem |-> m]
  ELSE [res |-> Result("true", 0, h),
        self |-> self,
        mem |-> Store(m, h.ptr, Vacant(self.vacant))]
free_keepentry(self, m, h, e) ==
  IF h.pool_id # self.id
  THEN [res |-> Panic, self |-> self, mem |-> m]
  ELSE IF e.tag = "Fault"
  THEN [res |-> Result("fault", 0, h), self |-> self, mem |-> m]
  ELSE IF e.tag = "Vacant"
  THEN [res |-> Result("false", 0, h), self |-> self, mem |-> m]
  ELSE [res |-> Result("true", 0, h),
        self |-> [self EXCEPT !.vacant = h.ptr],
        mem |-> m]
free_skiphead(self, m, h, e) ==
  IF h.pool_id # self.id
  THEN [res |-> Panic, self |-> self, mem |-> m]
  ELSE IF e.tag = "Fault"
  THEN [res |-> Result("fault", 0, h), self |-> self, mem |-> m]
  ELSE IF e.tag = "Vacant"
  THEN [res |-> Result("false", 0, h), self |-> self, mem |-> m]
  ELSE IF self.vacant = NULL
  THEN [res |-> Result("true", 0, h),
        self |-> [self EXCEPT !.vacant = h.ptr],
        mem |-> Store(m, h.ptr, Vacant(NULL))]
  ELSE [res |-> Result("true", 0, h),
        self |-> self,
        mem |-> Store(Store(m, h.ptr, Vacant(m[self.vacant].link)),
                      self.vacant, Vacant(h.ptr))]
free_losetail(self, m, h, e) ==
  IF h.pool_id # self.id
  THEN [res |-> Panic, self |-> self, mem |-> m]
  ELSE IF e.tag = "Fault"
  THEN [res |-> Result("fault", 0, h), self |-> self, mem |-> m]
  ELSE IF e.tag = "Vacant"
  THEN [res |-> Result("false", 0, h), self |-> self, mem |-> m]
  ELSE [res |-> Result("true", 0, h),
        self |-> [self EXCEPT !.vacant = h.ptr],
        mem |-> Store(m, h.ptr, Vacant(NULL))]
free_nocheck(self, m, h, e) ==
  IF h.pool_id # self.id
  THEN [res |-> Panic, self |-> self, mem |-> m]
  ELSE IF e.tag = "Fault"
  THEN [res |-> Result("fault", 0, h), self |-> self, mem |-> m]
  ELSE [res |-> Result("true", 0, h),
        self |-> [self EXCEPT !.vacant = h.ptr],
        mem |-> Store(m, h.ptr, Vacant(self.vacant))]
free(self, m, h, e) ==
  IF h.pool_id # self.id
  THEN [res |-> Panic, self |-> self, mem |-> m]
  ELSE IF e.tag = "Fault"
  THEN [res |-> Result("fault", 0, h), self |-> self, mem |-> m]
  ELSE IF e.tag = "Vacant"
  THEN [res |-> Result("false", 0, h), self |-> self, mem |-> m]
  ELSE [res |-> Result("true", 0, h),
        self |-> [self EXCEPT !.vacant = h.ptr],
        mem |-> Store(m, h.ptr, Vacant(self.vacant))]

\* Pool::get, on the entry e read at p.ptr
get(self, p, e) == IF p.pool_id # self.id THEN Panic ELSE as_ref(p, e)

\* Pool::get_unsafe
get_unsafe(self, p, e) == IF p.pool_id # self.id THEN Panic ELSE as_mut(p, e)

\* Pool::get_mut
get_mut(self, p, e) == get_unsafe(self, p, e)

\* Dropping a Pool frees its boxed blocks.
Unmap(m, blocks) ==
  [a \in Addr |->
     IF \E i \in 1..Len(blocks) : a >= blocks[i] /\ a < blocks[i] + BLOCK_SIZE
     THEN Unmapped ELSE m[a]]

\* The addresses of the slots of a pool's blocks.
SlotsOf(self) ==
  {a \in Addr : \E i \in 1..Len(self.blocks) :
                  a >= self.blocks[i] /\ a < self.blocks[i] + BLOCK_SIZE}

\* The blocks a pool had are still its first blocks, at the same addresses.
BlocksKept(before, after) ==
  /\ Len(after.blocks) >= Len(before.blocks)
  /\ \A i \in 1..Len(before.blocks) : after.blocks[i] = before.blocks[i]

\* The free list read from memory: the slots met when following the Vacant
\* links from a, at most fuel of them; ended tells that the walk reached a
\* link of none, and not a slot that is not Vacant or the end of the fuel.
RECURSIVE FreeList(_, _, _)
FreeList(m, a, fuel) ==
  IF a = NULL THEN [slots |-> <<>>, ended |-> TRUE]
  ELSE IF fuel = 0 \/ m[a].tag # "Vacant" THEN [slots |-> <<>>, ended |-> FALSE]
  ELSE LET rest == FreeList(m, m[a].link, fuel - 1)
       IN [slots |-> <<a>> \o rest.slots, ended |-> rest.ended]

\* The number of Occupied slots of a pool.
Occ(self, m) == Cardinality({a \in SlotsOf(self) : m[a].tag = "Occupied"})

Max(x, y) == IF x >= y THEN x ELSE y

\* ---- the caller -----------------------------------------------------------
\* Base addresses at which the global allocator can place a new block.
FreeBases(m) == {b \in Bases : m[b].tag = "Unmapped"}

\* The handles the caller can hold: those returned so far, and DANGLING.
Handles == {r.h : r \in issued} \cup {DANGLING}

Call(op, p, h, v, res) ==
  [op |-> op, p |-> p, h |-> h, v |-> v, kind |-> res.kind, val |-> res.val,
   out |-> res.out, prevFreed |-> DANGLING]

\* History of the calls made on each pool variable:
\*   inst    which call of PoolId::gen created the pool (0: no pool)
\*   virgin  the pool has only been allocated from and read so far: no call
\*           of free has reached it and nothing was written through get_mut
\*   log     while virgin, the allocs made (handle returned, value passed)
\*   freed   the handles whose free returned true and that no alloc has
\*           taken since, in the order of the calls of free
\*   lastFree  the handle freed when the last call on the pool was a free
\*           that returned true, DANGLING otherwise
\*   maxocc  the largest number of slots of the pool that were Occupied at
\*           the same time so far
\*   run     the handles of the last calls of free that returned true with
\*           no alloc between them, in the order of the calls
\*   taken   the number of allocs made since the last free of run, up to the
\*           length of run
NoHist ==
  [inst |-> 0, virgin |-> FALSE, log |-> <<>>, freed |-> <<>>,
   lastFree |-> DANGLING, maxocc |-> 0, run |-> <<>>, taken |-> 0]
NewHist(n) == [NoHist EXCEPT !.inst = n, !.virgin = TRUE]

\* The sequence s without its last element.
Front(s) == SubSeq(s, 1, Len(s) - 1)

Init ==
  /\ COUNTER = COUNTER_INIT
  /\ pools = [p \in PoolVars |-> NoPool]
  /\ mem = [a \in Addr |-> Unmapped]
  /\ issued = {}
  /\ call = Call("init", 0, DANGLING, 0, Result("ok", 0, DANGLING))
  /\ hist = [p \in PoolVars |-> NoHist]
  /\ genlog = <<>>
  /\ ncalls = 0

\* let pool = Pool::new();
New(p) ==
  /\ ~pools[p].live
  /\ Len(genlog) < MaxGen
  /\ LET g == gen(COUNTER)
     IN /\ COUNTER' = g.counter
        /\ pools' = [pools EXCEPT ![p] = new(g.id)]
        /\ genlog' = Append(genlog, g.id)
        /\ hist' = [hist EXCEPT ![p] = NewHist(Len(genlog) + 1)]
        /\ call' = Call("new", p, Ptr(DANGLING_ADDR, g.id), 0,
                        Result("ok", 0, DANGLING))
  /\ UNCHANGED <<mem, issued>>

\* drop(pool);
Drop(p) ==
  /\ pools[p].live
  /\ mem' = Unmap(mem, pools[p].blocks)
  /\ pools' = [pools EXCEPT ![p] = NoPool]
  /\ hist' = [hist EXCEPT ![p] = NoHist]
  /\ call' = Call("drop", p, DANGLING, 0, Result("ok", 0, DANGLING))
  /\ UNCHANGED <<COUNTER, issued, genlog>>

\* let h = pool.alloc(v);
Alloc(p, v) ==
  /\ pools[p].live
  /\ \E base \in (IF pools[p].vacant # NULL THEN {NULL} ELSE FreeBases(mem)) :
       LET g == alloc_grow(pools[p], mem, base)
       IN \E e \in Deref(g.mem, g.vacant) :
            LET r == alloc(pools[p], mem, v, base, e)
                ok == r.res.kind = "Ptr"
            IN /\ pools' = [pools EXCEPT ![p] = r.self]
               /\ mem' = r.mem
               /\ issued' = IF ok
                            THEN issued \cup {[h |-> r.res.out,
                                               inst |-> hist[p].inst]}
                            ELSE issued
               /\ hist' = IF ok
                          THEN [hist EXCEPT
                                  ![p].log = IF hist[p].virgin
                                             THEN Append(@, [h |-> r.res.out,
                                                             v |-> v])
                                             ELSE @,
                                  ![p].freed = Front(@),
                                  ![p].lastFree = DANGLING,
                                  ![p].maxocc = Max(@, Occ(r.self, r.mem)),
                                  ![p].run = IF hist[p].taken < Len(@)
                                             THEN @ ELSE <<>>,
                                  ![p].taken = IF @ < Len(hist[p].run)
                                               THEN @ + 1 ELSE 0]
                          ELSE [hist EXCEPT ![p].lastFree = DANGLING]
               /\ call' = [Call("alloc", p, DANGLING, v, r.res)
                             EXCEPT !.prevFreed = hist[p].lastFree]
  /\ UNCHANGED <<COUNTER, genlog>>

\* pool.free(h);
Free(p, h) ==
  /\ pools[p].live
  /\ \E e \in Deref(mem, h.ptr) :
       LET r == free(pools[p], mem, h, e)
           reached == r.res.kind # "panic"
       IN /\ pools' = [pools EXCEPT ![p] = r.self]
          /\ mem' = r.mem
          /\ hist' = IF reached
                     THEN [hist EXCEPT
                             ![p].virgin = FALSE,
                             ![p].log = <<>>,
                             ![p].freed = IF r.res.kind = "true"
                                          THEN Append(@, h) ELSE @,
                             ![p].lastFree = IF r.res.kind = "true"
                                             THEN h ELSE DANGLING,
                             ![p].run = IF r.res.kind # "true" THEN @
                                        ELSE IF hist[p].taken > 0 THEN <<h>>
                                        ELSE Append(@, h),
                             ![p].taken = IF r.res.kind = "true" THEN 0 ELSE @]
                     ELSE [hist EXCEPT ![p].lastFree = DANGLING]
          /\ call' = Call("free", p, h, 0, r.res)
  /\ UNCHANGED <<COUNTER, issued, genlog>>

\* let r = pool.get(h); and, when it is Some, Ptr::from(r)
Get(p, h) ==
  /\ pools[p].live
  /\ \E e \in Deref(mem, h.ptr) :
       LET r == get(pools[p], h, e)
       IN /\ issued' = IF r.kind = "Some"
                       THEN issued \cup {[h |-> r.out, inst |-> hist[p].inst]}
                       ELSE issued
          /\ call' = Call("get", p, h, 0, r)
  /\ hist' = [hist EXCEPT ![p].lastFree = DANGLING]
  /\ UNCHANGED <<COUNTER, pools, mem, genlog>>

\* if let Some(x) = pool.get_mut(h) { *x = w; }
GetMut(p, h, w) ==
  /\ pools[p].live
  /\ \E e \in Deref(mem, h.ptr) :
       LET r == get_mut(pools[p], h, e)
       IN /\ mem' = IF r.kind = "Some"
                    THEN Store(mem, r.out.ptr, Occupied(w)) ELSE mem
          /\ hist' = IF r.kind = "Some"
                     THEN [hist EXCEPT ![p].virgin = FALSE, ![p].log = <<>>,
                                       ![p].lastFree = DANGLING]
                     ELSE [hist EXCEPT ![p].lastFree = DANGLING]
          /\ call' = Call("get_mut", p, h, w, r)
  /\ UNCHANGED <<COUNTER, pools, issued, genlog>>

\* One more call of the sequence.  A panic (or a fault) ends the program:
\* no call follows it.
Step ==
  /\ ncalls < MaxCalls
  /\ call.kind \notin {"panic", "fault"}
  /\ ncalls' = ncalls + 1

DoNew == Step /\ \E p \in PoolVars : New(p)
DoDrop == Step /\ \E p \in PoolVars : Drop(p)
DoAlloc == Step /\ \E p \in PoolVars, v \in Values : Alloc(p, v)
DoFree == Step /\ \E p \in PoolVars, h \in Handles : Free(p, h)
DoGet == Step /\ \E p \in PoolVars, h \in Handles : Get(p, h)
DoGetMut ==
  Step /\ \E p \in PoolVars, h \in Handles, w \in Values : GetMut(p, h, w)

Next == DoNew \/ DoDrop \/ DoAlloc \/ DoFree \/ DoGet \/ DoGetMut

Spec == Init /\ [][Next]_vars

\* ---- a pool that is already full ------------------------------------------
\* The allocs vs[i], vs[i + 1], ... made one after the other on the pool
\* st.self in the memory st.mem, the first of them placing a block at base;
\* st.log collects the handles returned and the values passed.
RECURSIVE WarmFill(_, _, _, _)
WarmFill(st, vs, i, base) ==
  IF i > Len(vs) THEN st
  ELSE LET g == alloc_grow(st.self, st.mem, base)
           r == alloc(st.self, st.mem, vs[i], base, g.mem[g.vacant])
       IN WarmFill([self |-> r.self, mem |-> r.mem,
                    log |-> Append(st.log, [h |-> r.res.out, v |-> vs[i]])],
                   vs, i + 1, base)

\* The value passed to the i-th alloc of the fill: 1, 2, 1, 2, ...
WarmValue(i) == ((i - 1) % Cardinality(Values)) + 1

\* The state after  let mut pool = Pool::new();  and BLOCK_SIZE calls of
\* pool.alloc: one block, placed in the first frame, every slot Occupied.
\* ncalls counts the call of Pool::new and the calls made from here on, not
\* the allocs that fill the block.
InitWarm ==
    LET g == gen(COUNTER_INIT)
        base == FrameBase(1)
        vs == [i \in 1..BLOCK_SIZE |-> WarmValue(i)]
        st == WarmFill([self |-> new(g.id),
                        mem |-> [a \in Addr |-> Unmapped],
                        log |-> <<>>], vs, 1, base)
    IN /\ COUNTER = g.counter
       /\ pools = [p \in PoolVars |-> IF p = 1 THEN st.self ELSE NoPool]
       /\ mem = st.mem
       /\ issued = {[h |-> st.log[i].h, inst |-> 1] : i \in 1..BLOCK_SIZE}
       /\ call = Call("alloc", 1, DANGLING, vs[BLOCK_SIZE],
                      Result("Ptr", vs[BLOCK_SIZE], st.log[BLOCK_SIZE].h))
       /\ hist = [p \in PoolVars |->
                    IF p = 1
                    THEN [NewHist(1) EXCEPT !.log = st.log,
                                            !.maxocc = Occ(st.self, st.mem)]
                    ELSE NoHist]
       /\ genlog = <<g.id>>
       /\ ncalls = 1

SpecWarm == InitWarm /\ [][Next]_vars

\* ---- properties -----------------------------------------------------------
\* A call was made in this step (the step is not a stuttering step).
Called == ncalls' = ncalls + 1

\* C1: in a pool that has only been allocated from, the handles returned are
\* pairwise distinct and get on each of them returns the value passed to the
\* alloc that returned it, also after the pool has grown by further blocks.
C1_AllocOnlyHandlesDistinctAndReadable ==
  \A p \in PoolVars :
    LET L == hist[p].log
    IN \A i \in 1..Len(L) :
         /\ \A j \in 1..Len(L) : i # j => ~PtrEq(L[i].h, L[j].h)
         /\ \A e \in Deref(mem, L[i].h.ptr) :
              LET r == get(pools[p], L[i].h, e)
              IN r.kind = "Some" /\ r.val = L[i].v

\* A pool grown to a second block by allocs only, whose first handle has just
\* been read.
C1_Witness ==
  \E p \in PoolVars :
    /\ Len(hist[p].log) > BLOCK_SIZE
    /\ Len(pools[p].blocks) > 1
    /\ call.op = "get" /\ call.p = p /\ call.kind = "Some"
    /\ call.h = hist[p].log[1].h /\ call.val = hist[p].log[1].v

\* C2: once free(h) has returned true, and until an alloc takes the slot
\* again, get(h) and get_mut(h) return None and free(h) returns false.
C2_FreedHandleIsGone ==
  \A p \in PoolVars :
    \A i \in 1..Len(hist[p].freed) :
      LET h == hist[p].freed[i]
      IN \A e \in Deref(mem, h.ptr) :
           /\ get(pools[p], h, e).kind = "None"
           /\ get_mut(pools[p], h, e).kind = "None"
           /\ free(pools[p], mem, h, e).res.kind = "false"

\* A second free of a freed handle has just returned false.
C2_Witness ==
  \E p \in PoolVars :
    /\ Len(hist[p].freed) > 0
    /\ call.op = "free" /\ call.p = p /\ call.kind = "false"
    /\ call.h = hist[p].freed[Len(hist[p].freed)]

\* C3: a pool that has only been allocated from n times has exactly
\* ceil(n / BLOCK_SIZE) blocks: none when new, k after k * BLOCK_SIZE allocs,
\* k + 1 after one more.
C3_BlockGrowthLazyAndExact ==
  \A p \in PoolVars :
    (pools[p].live /\ hist[p].virgin) =>
      Len(pools[p].blocks) = (Len(hist[p].log) + BLOCK_SIZE - 1) \div BLOCK_SIZE

\* One alloc more than a block holds has made a second block.
C3_Witness ==
  \E p \in PoolVars :
    /\ hist[p].virgin
    /\ Len(hist[p].log) = BLOCK_SIZE + 1
    /\ Len(pools[p].blocks) = 2
    /\ call.op = "alloc" /\ call.p = p

\* C4: when the last call on a pool was a free(h) that returned true, an
\* alloc on that pool returns a handle equal to h and adds no block.
C4_FreedSlotIsReused ==
  [][\A p \in PoolVars :
       (Called /\ call'.op = "alloc" /\ call'.p = p
          /\ hist[p].lastFree # DANGLING) =>
         /\ call'.kind = "Ptr"
         /\ PtrEq(call'.out, hist[p].lastFree)
         /\ Len(pools'[p].blocks) = Len(pools[p].blocks)]_vars

\* An alloc has just followed a successful free on its pool, after earlier
\* allocs and frees.
C4_Witness ==
  /\ call.op = "alloc" /\ call.kind = "Ptr"
  /\ call.prevFreed # DANGLING
  /\ PtrEq(call.out, call.prevFreed)
  /\ \E a \in Addr : a # call.out.ptr /\ mem[a].tag = "Vacant"

\* C5: free, get and get_mut called with a handle whose pool id is not the
\* pool's id panic and change no block, slot or free-list head of any pool.
C5_ForeignHandleIsFatal ==
  [][\A p \in PoolVars :
       (Called /\ call'.op \in {"free", "get", "get_mut"} /\ call'.p = p
          /\ call'.h.pool_id # pools[p].id) =>
         /\ call'.kind = "panic"
         /\ mem' = mem
         /\ pools' = pools]_vars

\* free has just panicked on a handle to an occupied slot of another live
\* pool.
C5_Witness ==
  /\ call.op = "free" /\ call.kind = "panic"
  /\ \E q \in PoolVars :
       /\ q # call.p
       /\ pools[q].live
       /\ pools[q].id = call.h.pool_id
       /\ mem[call.h.ptr].tag = "Occupied"

\* C6: get and get_mut called with DANGLING return None, without a panic.
C6_DanglingIsNotFound ==
  (call.op \in {"get", "get_mut"} /\ call.h = DANGLING) => call.kind = "None"

\* C7: a value written through get_mut(h) is what get(h) returns afterwards,
\* and the write changes no other slot, no free-list head and no block.
C7_WriteThroughGetMut ==
  [][(Called /\ call'.op = "get_mut" /\ call'.kind = "Some") =>
       LET p == call'.p
           h == call'.h
       IN /\ \A e \in Deref(mem', h.ptr) :
               LET r == get(pools'[p], h, e)
               IN r.kind = "Some" /\ r.val = call'.v
          /\ \A a \in Addr \ {h.ptr} : mem'[a] = mem[a]
          /\ pools' = pools]_vars

\* A write through get_mut has just replaced a different value.
C7_Witness ==
  /\ call.op = "get_mut" /\ call.kind = "Some"
  /\ call.v # call.val
  /\ mem[call.h.ptr] = Occupied(call.v)

\* C8: two handles are equal exactly when their addresses and their pool ids
\* are equal, and handles issued by different pools are never equal.
C8_HandleEquality ==
  \A a \in issued : \A b \in issued :
    /\ PtrEq(a.h, b.h) <=> (a.h.ptr = b.h.ptr /\ a.h.pool_id = b.h.pool_id)
    /\ a.inst # b.inst => ~PtrEq(a.h, b.h)

\* Two pools have issued handles to the same address.
C8_Witness ==
  \E a \in issued : \E b \in issued : a.inst # b.inst /\ a.h.ptr = b.h.ptr

\* C9: the ids returned by PoolId::gen are pairwise distinct and never
\* PoolId::ZERO, so live pools have distinct ids that differ from DANGLING's.
C9_PoolIdsUnique ==
  /\ \A i \in 1..Len(genlog) :
       /\ genlog[i] # ZERO
       /\ \A j \in 1..Len(genlog) : i # j => genlog[i] # genlog[j]
  /\ \A p \in PoolVars :
       pools[p].live =>
         /\ pools[p].id # DANGLING.pool_id
         /\ pools[p].id = genlog[hist[p].inst]
         /\ \A q \in PoolVars :
              (q # p /\ pools[q].live) => pools[q].id # pools[p].id

\* Two pools are live after three ids were generated.
C9_Witness ==
  /\ Len(genlog) >= 3
  /\ \E p \in PoolVars : \E q \in PoolVars :
       p # q /\ pools[p].live /\ pools[q].live

\* C10: comparing two handles gives Equal exactly when they are equal.
C10_OrderConsistentWithEquality ==
  \A a \in Handles : \A b \in Handles :
    (PtrCmp(a, b) = "Equal") <=> PtrEq(a, b)

\* C11: an occupied slot of a pool keeps its entry and its address through
\* every call except the drop of its pool and a free or a write through
\* get_mut with a handle naming that slot; this includes allocs that push a
\* new block.
C11_IssuedStorageStable ==
  [][\A p \in PoolVars : \A a \in SlotsOf(pools[p]) :
       (Called /\ mem[a].tag = "Occupied"
          /\ ~(call'.op = "drop" /\ call'.p = p)
          /\ ~(call'.op \in {"free", "get_mut"} /\ call'.h.ptr = a)) =>
         /\ mem'[a] = mem[a]
         /\ BlocksKept(pools[p], pools'[p])]_vars

\* An alloc has just pushed a second block while the first block was full.
C11_Witness ==
  /\ call.op = "alloc" /\ call.kind = "Ptr"
  /\ Len(pools[call.p].blocks) = 2
  /\ call.out.ptr >= pools[call.p].blocks[2]
  /\ call.out.ptr < pools[call.p].blocks[2] + BLOCK_SIZE
  /\ \A a \in SlotsOf(pools[call.p]) :
       a < pools[call.p].blocks[2] \/ a >= pools[call.p].blocks[2] + BLOCK_SIZE
         => mem[a].tag = "Occupied"

\* C12: free called with a handle of this pool whose slot is Vacant returns
\* false and changes no slot, no free-list head and no block.
C12_DoubleFreeIsNoOp ==
  [][\A p \in PoolVars :
       (Called /\ call'.op = "free" /\ call'.p = p
          /\ call'.h.pool_id = pools[p].id
          /\ call'.h.ptr \in Addr /\ mem[call'.h.ptr].tag = "Vacant") =>
         /\ call'.kind = "false"
         /\ mem' = mem
         /\ pools' = pools]_vars

\* A free of an already vacant slot of the pool has just returned false
\* while another slot of the pool holds a value.
C12_Witness ==
  /\ call.op = "free" /\ call.kind = "false"
  /\ call.h.pool_id = pools[call.p].id
  /\ mem[call.h.ptr].tag = "Vacant"
  /\ \E a \in SlotsOf(pools[call.p]) : mem[a].tag = "Occupied"

\* C13 as stated: an alloc that pushes a block returns the location of the
\* first slot (index 0) of that block.
C13_GrowthUsesFirstSlot ==
  [][\A p \in PoolVars :
       (Called /\ call'.op = "alloc" /\ call'.p = p /\ call'.kind = "Ptr"
          /\ Len(pools'[p].blocks) = Len(pools[p].blocks) + 1) =>
         call'.out.ptr = pools'[p].blocks[Len(pools'[p].blocks)]]_vars

\* C13 amended: an alloc that pushes a block returns the location of the
\* last slot (index BLOCK_SIZE - 1) of that block, stores the value there,
\* and leaves the slot before it (or none, for a one-slot block) as the head.
C13_GrowthUsesLastSlot ==
  [][\A p \in PoolVars :
       (Called /\ call'.op = "alloc" /\ call'.p = p /\ call'.kind = "Ptr"
          /\ Len(pools'[p].blocks) = Len(pools[p].blocks) + 1) =>
         LET base == pools'[p].blocks[Len(pools'[p].blocks)]
         IN /\ call'.out.ptr = base + BLOCK_SIZE - 1
            /\ mem'[base + BLOCK_SIZE - 1] = Occupied(call'.v)
            /\ pools'[p].vacant =
                 IF BLOCK_SIZE = 1 THEN NULL ELSE base + BLOCK_SIZE - 2
            /\ \A a \in base..(base + BLOCK_SIZE - 2) : mem'[a].tag = "Vacant"]_vars

\* The first alloc into a second block of a pool that was only allocated
\* from: the value sits in the last slot of the new block.
C13_Witness ==
  /\ call.op = "alloc" /\ call.kind = "Ptr"
  /\ hist[call.p].virgin
  /\ Len(pools[call.p].blocks) = 2
  /\ Len(hist[call.p].log) = BLOCK_SIZE + 1
  /\ call.out.ptr = pools[call.p].blocks[2] + BLOCK_SIZE - 1
  /\ mem[call.out.ptr] = Occupied(call.v)

\* C14: the head of a pool's free list, when there is one, is a Vacant slot,
\* and no call of alloc ends in the panic of its match (or reads unmapped
\* memory): every alloc returns a handle.  A call sequence that passes a
\* handle of another pool id ends at that call, so every earlier call used
\* handles of the pool's own id, stale and doubly freed ones included.
C14_AllocPanicUnreachable ==
  /\ call.op = "alloc" => call.kind = "Ptr"
  /\ \A p \in PoolVars :
       (pools[p].live /\ pools[p].vacant # NULL) =>
         /\ pools[p].vacant \in SlotsOf(pools[p])
         /\ mem[pools[p].vacant].tag = "Vacant"

\* An alloc returned a handle in a pool where a free had succeeded and the
\* freed (stale) handle was then used again before the alloc.
C14_Witness ==
  /\ call.op = "alloc" /\ call.kind = "Ptr"
  /\ ~hist[call.p].virgin
  /\ call.prevFreed = DANGLING
  /\ Len(pools[call.p].blocks) = 1
  /\ Cardinality({a \in SlotsOf(pools[call.p]) : mem[a].tag = "Occupied"}) = 1

\* C15: in every state of a live pool, following the Vacant links from the
\* head ends in a link of none, meets no slot twice and no Occupied slot, and
\* meets exactly the Vacant slots of the pool's blocks; the Occupied slots and
\* the slots of the list together are all the slots of the blocks, and the
\* head is none exactly when no slot is Vacant.
C15_FreeListExact ==
  \A p \in PoolVars :
    pools[p].live =>
      LET S == SlotsOf(pools[p])
          V == {a \in S : mem[a].tag = "Vacant"}
          O == {a \in S : mem[a].tag = "Occupied"}
          w == FreeList(mem, pools[p].vacant, Cardinality(S) + 1)
          L == w.slots
      IN /\ w.ended
         /\ \A i, j \in 1..Len(L) : i # j => L[i] # L[j]
         /\ {L[i] : i \in 1..Len(L)} = V
         /\ Cardinality(O) + Len(L) = Len(pools[p].blocks) * BLOCK_SIZE
         /\ Cardinality(S) = Len(pools[p].blocks) * BLOCK_SIZE
         /\ ((pools[p].vacant = NULL) <=> (V = {}))

\* A free has just put a slot of the first block in front of a free list
\* that continues in the second block, while other slots hold values.
C15_Witness ==
  /\ call.op = "free" /\ call.kind = "true"
  /\ Len(pools[call.p].blocks) = 2
  /\ pools[call.p].vacant = call.h.ptr
  /\ call.h.ptr < pools[call.p].blocks[1] + BLOCK_SIZE
  /\ call.h.ptr >= pools[call.p].blocks[1]
  /\ mem[call.h.ptr].link >= pools[call.p].blocks[2]
  /\ mem[call.h.ptr].link < pools[call.p].blocks[2] + BLOCK_SIZE
  /\ \E a \in SlotsOf(pools[call.p]) : mem[a].tag = "Occupied"

\* C16: when the calls free(h1), ..., free(hn) returned true with no alloc
\* between them, the k-th alloc made after them (k <= n) returns a handle
\* equal to the k-th last of h1..hn, and pushes no block.
C16_ReuseIsLastFreedFirst ==
  [][\A p \in PoolVars :
       (Called /\ call'.op = "alloc" /\ call'.p = p
          /\ hist[p].taken < Len(hist[p].run)) =>
         /\ call'.kind = "Ptr"
         /\ PtrEq(call'.out, hist[p].run[Len(hist[p].run) - hist[p].taken])
         /\ pools'[p].blocks = pools[p].blocks]_vars

\* Two frees in a row returned true and the second alloc after them has just
\* returned the handle freed first.
C16_Witness ==
  /\ call.op = "alloc" /\ call.kind = "Ptr"
  /\ Len(hist[call.p].run) = 2
  /\ hist[call.p].taken = 2
  /\ ~PtrEq(hist[call.p].run[1], hist[call.p].run[2])
  /\ PtrEq(call.out, hist[call.p].run[1])
  /\ Len(pools[call.p].blocks) = 1

\* A handle that was freed (free returned true) and whose slot an alloc has
\* taken again since: one of the last taken handles of the run of frees.
StaleReused(p, h) ==
  \E i \in 1..Len(hist[p].run) :
    i > Len(hist[p].run) - hist[p].taken /\ h = hist[p].run[i]

\* C17: a call made with a handle that was freed and whose slot an alloc
\* has reused behaves as with the new handle: get returns the value now in
\* the slot (the value passed to that alloc when it was the last call), a
\* write through get_mut lands in the slot, and free returns true and makes
\* the slot the Vacant head of the free list.
C17_StaleHandleAliases ==
  [][\A p \in PoolVars :
       (Called /\ call'.p = p /\ call'.op \in {"get", "get_mut", "free"}
          /\ StaleReused(p, call'.h)) =>
         /\ mem[call'.h.ptr].tag = "Occupied"
         /\ call'.op = "get" =>
              /\ call'.kind = "Some"
              /\ call'.val = mem[call'.h.ptr].value
              /\ (call.op = "alloc" /\ call.out = call'.h) => call'.val = call.v
         /\ call'.op = "get_mut" =>
              /\ call'.kind = "Some"
              /\ mem'[call'.h.ptr] = Occupied(call'.v)
         /\ call'.op = "free" =>
              /\ call'.kind = "true"
              /\ mem'[call'.h.ptr].tag = "Vacant"
              /\ pools'[p].vacant = call'.h.ptr]_vars

\* get has just returned the value of the new occupant for a handle that
\* was freed before the alloc of that occupant.
C17_Witness ==
  /\ call.op = "get" /\ call.kind = "Some"
  /\ hist[call.p].taken = 1
  /\ Len(hist[call.p].run) = 1
  /\ call.h = hist[call.p].run[1]
  /\ mem[call.h.ptr] = Occupied(call.val)

\* C18: while a pool lives, every call keeps the blocks it has, in order and
\* in place; free, get and get_mut (and calls on other pools) leave the block
\* sequence unchanged; an alloc appends exactly one block when the free list
\* is empty before the call and none otherwise.
C18_BlocksOnlyAppended ==
  [][\A p \in PoolVars :
       (Called /\ pools[p].live /\ ~(call'.op = "drop" /\ call'.p = p)) =>
         /\ BlocksKept(pools[p], pools'[p])
         /\ (call'.op \in {"free", "get", "get_mut"} \/ call'.p # p) =>
              pools'[p].blocks = pools[p].blocks
         /\ (call'.op = "alloc" /\ call'.p = p) =>
              Len(pools'[p].blocks) =
                Len(pools[p].blocks) + (IF pools[p].vacant = NULL THEN 1 ELSE 0)]_vars

\* A free has just emptied the second block of a pool: no slot of that block
\* holds a value, and the pool still has both blocks.
C18_Witness ==
  /\ call.op = "free" /\ call.kind = "true"
  /\ Len(pools[call.p].blocks) = 2
  /\ \A a \in SlotsOf(pools[call.p]) :
       a >= pools[call.p].blocks[2] /\ a < pools[call.p].blocks[2] + BLOCK_SIZE
         => mem[a].tag = "Vacant"

\* C19: after every call, the number of blocks of a live pool is the ceiling
\* of (the largest number of slots Occupied at the same time so far) divided
\* by BLOCK_SIZE; and a call that adds a block to a pool is an alloc that
\* starts with every slot of the pool Occupied.
C19_NoGrowthWhileSlotFree ==
  [][\A p \in PoolVars :
       Called =>
         /\ pools'[p].live =>
              Len(pools'[p].blocks) =
                (hist'[p].maxocc + BLOCK_SIZE - 1) \div BLOCK_SIZE
         /\ (pools[p].live /\ pools'[p].live
               /\ Len(pools'[p].blocks) > Len(pools[p].blocks)) =>
              /\ call'.op = "alloc" /\ call'.p = p
              /\ \A a \in SlotsOf(pools[p]) : mem[a].tag = "Occupied"]_vars

\* A pool that grew to two blocks when one more slot than a block holds was
\* Occupied, and in which a free has since made a slot Vacant: fewer slots
\* are Occupied now than at the peak.
C19_Witness ==
  /\ call.op = "free" /\ call.kind = "true"
  /\ Len(pools[call.p].blocks) = 2
  /\ hist[call.p].maxocc = BLOCK_SIZE + 1
  /\ Occ(pools[call.p], mem) < hist[call.p].maxocc

\* C20: when get(h) on a pool returns a Ref, the handle converted from that
\* Ref equals h (same slot location, same pool id), and get, get_mut and
\* free called on the pool with it pass the assert on the pool id: get and
\* get_mut return Some and free returns true.
C20_RefRoundTrip ==
  (call.op = "get" /\ call.kind = "Some") =>
    LET P == pools[call.p]
        h2 == call.out
    IN /\ PtrEq(h2, call.h)
       /\ h2.ptr = call.h.ptr /\ h2.pool_id = call.h.pool_id
       /\ h2.ptr \in SlotsOf(P)
       /\ get(P, h2, mem[h2.ptr]).kind = "Some"
       /\ get(P, h2, mem[h2.ptr]).val = call.val
       /\ get_mut(P, h2, mem[h2.ptr]).kind = "Some"
       /\ free(P, mem, h2, mem[h2.ptr]).res.kind = "true"

\* get has just returned a Ref in a pool with another live value, and the
\* handle converted from it is one the caller can pass to later calls.
C20_Witness ==
  /\ call.op = "get" /\ call.kind = "Some"
  /\ call.out \in Handles
  /\ call.out.pool_id = pools[call.p].id
  /\ mem[call.out.ptr] = Occupied(call.val)
  /\ Occ(pools[call.p], mem) >= 2

====
